---------------------------- MODULE Spec2Model ----------------------------
(***************************************************************************)
(* State-machine model of the Account Pool & Safety Controller:            *)
(*   - CircuitBreaker  (src/src/safety/CircuitBreaker.js)                  *)
(*   - WalletManager   (src/src/wallet/WalletManager.js)                   *)
(*                                                                         *)
(* JavaScript runs handlers on one thread; a handler is interrupted only   *)
(* at an await.  Every action below is one synchronous stretch of code     *)
(* between two suspension points.                                          *)
(*                                                                         *)
(* Numbers.  Rates that the code holds as doubles (0.3, 0.2) are held here  *)
(* in thousandths (300, 200) and compared by cross-multiplication.          *)
(***************************************************************************)
EXTENDS Integers, Sequences, FiniteSets, TLC

\* ------------------------------------------------------------------------
\* Bounds of the model
\* ------------------------------------------------------------------------

\* recordTradeResult is called at most failureRateWindow + ExtraRecords times
ExtraRecords == 2

\* checkCounter is capped: no evaluate call starts once it reached MaxChecks
MaxChecks == 3

\* checkCircuitBreakers is called at most MaxCalls times
MaxCalls == 3

\* ------------------------------------------------------------------------
\* CircuitBreaker: configuration and environment
\* ------------------------------------------------------------------------

\* imported from '../constants.js'; "every Nth call (a fixed check interval)"
SINK_BALANCE_CHECK_INTERVAL == 2

\* config.enableCircuitBreaker, maxConsecutiveFailures, failureRateWindow,
\* maxFailureRate (thousandths), emergencyStopLoss (thousandths)
BreakerConfigs ==
    { [enableCircuitBreaker |-> e, maxConsecutiveFailures |-> 2,
       failureRateWindow |-> 3, maxFailureRate |-> 500,
       emergencyStopLoss |-> 200] : e \in BOOLEAN }
    \cup
    { [enableCircuitBreaker |-> TRUE, maxConsecutiveFailures |-> 3,
       failureRateWindow |-> 4, maxFailureRate |-> 250,
       emergencyStopLoss |-> 200],
      [enableCircuitBreaker |-> TRUE, maxConsecutiveFailures |-> 5,
       failureRateWindow |-> 10, maxFailureRate |-> 300,
       emergencyStopLoss |-> 200] }

\* the balance the external orchestrator records as initialSinkBalance
InitialSinkBalances == {10}

\* what connection.getBalance(sink) may answer
SinkBalances == {5, 8, 12}

\* ------------------------------------------------------------------------
\* Variables
\* ------------------------------------------------------------------------
VARIABLES
    config,               \* CircuitBreaker.config
    consecutiveFailures,  \* CircuitBreaker.consecutiveFailures
    recentTrades,         \* CircuitBreaker.recentTrades
    initialSinkBalance,   \* CircuitBreaker.initialSinkBalance
    checkCounter,         \* CircuitBreaker.checkCounter
    evalPc,               \* position of the checkCircuitBreakers call in flight
    evalResult,           \* result of the check that ran last in that call
    evalSink,             \* its sinkKeypair argument (TRUE: given, FALSE: null)
    lastReturn,           \* what the last finished checkCircuitBreakers call returned
    recorded,             \* history: every argument passed to recordTradeResult
    balanceQueries,       \* history: number of connection.getBalance(sink) calls
    fresh,                \* history: the last step was a step of the call in flight
    needEval,             \* history: an outcome was recorded and not yet evaluated
    protocolOK,           \* history: evaluate ran to its end after every recordTradeResult
    firstTripAt,          \* history: consecutiveFailures at the first trip of the
                          \*   consecutive-failure check in the current run of failures
    evalCalls             \* history: number of checkCircuitBreakers calls so far

cbVars == <<config, consecutiveFailures, recentTrades, initialSinkBalance,
            checkCounter, evalPc, evalResult, evalSink, lastReturn, recorded,
            balanceQueries, fresh, needEval, protocolOK, firstTripAt, evalCalls>>

VARIABLES
    walletConfig,         \* WalletManager.config
    store,                \* what walletDataLoader.loadWallets() answers
    walletData,           \* WalletManager.walletData
    allPubkeys,           \* WalletManager.allPubkeys
    funded,               \* WalletManager.funded
    relayerKeypairs,      \* WalletManager.relayerKeypairs
    sinkKeypair,          \* WalletManager.sinkKeypair (TRUE: loaded, FALSE: null)
    loadPc,               \* position of the loadOrGenerateWallets call
    gen,                  \* generateWallets' locals: remaining, i, keys generated so far
    fund,                 \* the fundWalletsInParallel call: pc, call number, toCheck, i, batch
    tasks                 \* every fundSingleWallet call so far, in calling order

VARIABLES
    now,                  \* what Date.now() answers
    clockSteps,           \* history: how often the clock has moved
    activeWallets,        \* WalletManager.activeWallets
    walletCooldowns,      \* WalletManager.walletCooldowns (a Map: its keys are the domain)
    walletTradeCount,     \* WalletManager.walletTradeCount
    walletPersonalities,  \* WalletManager.walletPersonalities
    usedAt,               \* history: id -> time of its last markWalletUsed
    select                \* history: the last loadActiveBatch call and what it returned

rotVars == <<now, clockSteps, activeWallets, walletCooldowns, walletTradeCount,
             walletPersonalities, usedAt, select>>

wmVars == <<walletConfig, store, walletData, allPubkeys, funded, relayerKeypairs,
            sinkKeypair, loadPc, gen, fund, tasks, rotVars>>

vars == <<cbVars, wmVars>>

\* ------------------------------------------------------------------------
\* CircuitBreaker: helpers
\* ------------------------------------------------------------------------

NotTripped == [tripped |-> FALSE, reason |-> ""]

NoReturn == [kind |-> "none", tripped |-> FALSE, reason |-> ""]

Returned(r) == [kind |-> "result", tripped |-> r.tripped, reason |-> r.reason]

Rejected == [kind |-> "error", tripped |-> FALSE, reason |-> ""]

\* Number.prototype.toFixed(1) of num/den * 100, for num/den >= 0:
\* the nearest multiple of 0.1, the larger one on a tie
ToFixed1Percent(num, den) ==
    LET tenths == (2 * 1000 * num + den) \div (2 * den)
    IN  ToString(tenths \div 10) \o "." \o ToString(tenths % 10)

\* WindowPush with the eviction test off by one (>= for >)
WindowPushEarly(trades, success, window) ==
    LET pushed == Append(trades, success)
    IN  IF Len(pushed) >= window THEN Tail(pushed) ELSE pushed

\* recentTrades.push(success); if (length > failureRateWindow) shift()
WindowPush(trades, success, window) ==
    LET pushed == Append(trades, success)
    IN  IF Len(pushed) > window THEN Tail(pushed) ELSE pushed

\* if (success) consecutiveFailures = 0 else consecutiveFailures++
NextConsecutive(count, success) == IF success THEN 0 ELSE count + 1

\* recentTrades.filter(r => !r).length
Failures(trades) == Cardinality({i \in 1..Len(trades) : ~trades[i]})

\* the enable guard left out
BreakerAlwaysEnabled(cfg) == TRUE

\* if (!this.config.enableCircuitBreaker) return
BreakerEnabled(cfg) == cfg.enableCircuitBreaker

\* checkConsecutiveFailures with > for >=
checkConsecutiveFailuresStrict(count, cfg) ==
    IF count > cfg.maxConsecutiveFailures
    THEN [tripped |-> TRUE,
          reason |-> "Circuit Breaker: " \o ToString(count) \o " consecutive failures"]
    ELSE NotTripped

checkConsecutiveFailures(count, cfg) ==
    IF count >= cfg.maxConsecutiveFailures
    THEN [tripped |-> TRUE,
          reason |-> "Circuit Breaker: " \o ToString(count) \o " consecutive failures"]
    ELSE NotTripped

\* checkFailureRate with >= for > in the comparison with maxFailureRate
checkFailureRateInclusive(trades, cfg) ==
    IF /\ Len(trades) >= cfg.failureRateWindow
       /\ Failures(trades) * 1000 >= cfg.maxFailureRate * Len(trades)
    THEN [tripped |-> TRUE,
          reason |-> "Circuit Breaker: " \o ToFixed1Percent(Failures(trades), Len(trades))
                     \o "% failure rate (last " \o ToString(cfg.failureRateWindow)
                     \o " trades)"]
    ELSE NotTripped

checkFailureRate(trades, cfg) ==
    IF /\ Len(trades) >= cfg.failureRateWindow
       /\ Failures(trades) * 1000 > cfg.maxFailureRate * Len(trades)
    THEN [tripped |-> TRUE,
          reason |-> "Circuit Breaker: " \o ToFixed1Percent(Failures(trades), Len(trades))
                     \o "% failure rate (last " \o ToString(cfg.failureRateWindow)
                     \o " trades)"]
    ELSE NotTripped

\* the guard of the balance query without its test of checkCounter
StopLossAlwaysDue(sinkGiven, initial, counter) == sinkGiven /\ initial > 0

\* the guard of the balance query in checkEmergencyStopLoss
StopLossDue(sinkGiven, initial, counter) ==
    sinkGiven /\ initial > 0 /\ counter % SINK_BALANCE_CHECK_INTERVAL = 0

\* the part of checkEmergencyStopLoss after the balance query
StopLossResult(initial, current, cfg) ==
    IF (initial - current) * 1000 > cfg.emergencyStopLoss * initial
    THEN [tripped |-> TRUE,
          reason |-> "Circuit Breaker: " \o ToFixed1Percent(initial - current, initial)
                     \o "% loss from initial balance"]
    ELSE NotTripped

\* ------------------------------------------------------------------------
\* CircuitBreaker: initial state (the constructor)
\* ------------------------------------------------------------------------
BreakerConstructed(cfg) ==
    /\ config = cfg
    /\ consecutiveFailures = 0
    /\ recentTrades = <<>>
    /\ initialSinkBalance = 0
    /\ checkCounter = 0
    /\ evalPc = "idle"
    /\ evalResult = NotTripped
    /\ evalSink = FALSE
    /\ lastReturn = NoReturn
    /\ recorded = <<>>
    /\ balanceQueries = 0
    /\ fresh = FALSE
    /\ needEval = FALSE
    /\ protocolOK = TRUE
    /\ firstTripAt = 0
    /\ evalCalls = 0

\* ------------------------------------------------------------------------
\* CircuitBreaker: actions
\* ------------------------------------------------------------------------

\* The orchestrator stores the sink balance it read at start-up.
SetInitialSinkBalance(b) ==
    /\ initialSinkBalance = 0
    /\ initialSinkBalance' = b
    /\ fresh' = FALSE
    /\ UNCHANGED <<evalCalls, config, consecutiveFailures, recentTrades, checkCounter, evalPc,
                   evalResult, evalSink, lastReturn, recorded, balanceQueries,
                   needEval, protocolOK, firstTripAt>>
    /\ UNCHANGED wmVars

recordTradeResult(success) ==
    /\ Len(recorded) < config.failureRateWindow + ExtraRecords
    /\ recorded' = Append(recorded, success)
    /\ IF BreakerEnabled(config)
       THEN /\ recentTrades' = WindowPush(recentTrades, success, config.failureRateWindow)
            /\ consecutiveFailures' = NextConsecutive(consecutiveFailures, success)
       ELSE UNCHANGED <<recentTrades, consecutiveFailures>>
    /\ fresh' = FALSE
    /\ protocolOK' = (protocolOK /\ ~needEval /\ evalPc = "idle")
    /\ needEval' = TRUE
    /\ firstTripAt' = IF success THEN 0 ELSE firstTripAt
    /\ UNCHANGED <<evalCalls, config, initialSinkBalance, checkCounter, evalPc, evalResult,
                   evalSink, lastReturn, balanceQueries>>
    /\ UNCHANGED wmVars

\* checkCircuitBreakers up to its first await: the enable guard and the
\* consecutive-failure check
EvalCall(sinkGiven) ==
    /\ evalPc = "idle"
    /\ checkCounter < MaxChecks
    /\ evalCalls < MaxCalls
    /\ evalCalls' = evalCalls + 1
    /\ IF ~BreakerEnabled(config)
       THEN /\ lastReturn' = Returned(NotTripped)
            /\ fresh' = FALSE
            /\ UNCHANGED <<evalPc, evalResult, evalSink, firstTripAt>>
       ELSE LET r == checkConsecutiveFailures(consecutiveFailures, config)
            IN  /\ evalResult' = r
                /\ evalSink' = sinkGiven
                /\ evalPc' = "afterCheck1"
                /\ fresh' = TRUE
                /\ firstTripAt' = IF r.tripped /\ firstTripAt = 0
                                  THEN consecutiveFailures ELSE firstTripAt
                /\ UNCHANGED lastReturn
    /\ needEval' = FALSE
    /\ UNCHANGED <<config, consecutiveFailures, recentTrades, initialSinkBalance,
                   checkCounter, recorded, balanceQueries, protocolOK>>
    /\ UNCHANGED wmVars

\* the loop of checkCircuitBreakers without "if (result.tripped) return result"
\* after the consecutive-failure check
EvalAfterCheck1NoStop ==
    /\ evalPc = "afterCheck1"
    /\ evalResult' = checkFailureRate(recentTrades, config)
    /\ evalPc' = "afterCheck2"
    /\ fresh' = TRUE
    /\ UNCHANGED <<evalCalls, config, consecutiveFailures, recentTrades, initialSinkBalance,
                   checkCounter, evalSink, lastReturn, recorded, balanceQueries, needEval,
                   protocolOK, firstTripAt>>
    /\ UNCHANGED wmVars

\* resumes after "await check()" of the consecutive-failure check
EvalAfterCheck1 ==
    /\ evalPc = "afterCheck1"
    /\ IF evalResult.tripped
       THEN /\ lastReturn' = Returned(evalResult)
            /\ evalPc' = "idle"
            /\ fresh' = FALSE
            /\ UNCHANGED evalResult
       ELSE /\ evalResult' = checkFailureRate(recentTrades, config)
            /\ evalPc' = "afterCheck2"
            /\ fresh' = TRUE
            /\ UNCHANGED lastReturn
    /\ UNCHANGED <<evalCalls, config, consecutiveFailures, recentTrades, initialSinkBalance,
                   checkCounter, evalSink, recorded, balanceQueries, needEval,
                   protocolOK, firstTripAt>>
    /\ UNCHANGED wmVars

\* resumes after "await check()" of the failure-rate check; runs
\* checkEmergencyStopLoss up to its await
EvalAfterCheck2 ==
    /\ evalPc = "afterCheck2"
    /\ IF evalResult.tripped
       THEN /\ lastReturn' = Returned(evalResult)
            /\ evalPc' = "idle"
            /\ fresh' = FALSE
            /\ UNCHANGED <<evalResult, checkCounter, balanceQueries>>
       ELSE /\ checkCounter' = checkCounter + 1
            /\ fresh' = TRUE
            /\ IF StopLossDue(evalSink, initialSinkBalance, checkCounter + 1)
               THEN /\ evalPc' = "balance"
                    /\ balanceQueries' = balanceQueries + 1
                    /\ UNCHANGED evalResult
               ELSE /\ evalPc' = "afterCheck3"
                    /\ evalResult' = NotTripped
                    /\ UNCHANGED balanceQueries
            /\ UNCHANGED lastReturn
    /\ UNCHANGED <<evalCalls, config, consecutiveFailures, recentTrades, initialSinkBalance,
                   evalSink, recorded, needEval, protocolOK, firstTripAt>>
    /\ UNCHANGED wmVars

\* connection.getBalance(sink) answers
EvalBalance(current) ==
    /\ evalPc = "balance"
    /\ evalResult' = StopLossResult(initialSinkBalance, current, config)
    /\ evalPc' = "afterCheck3"
    /\ fresh' = TRUE
    /\ UNCHANGED <<evalCalls, config, consecutiveFailures, recentTrades, initialSinkBalance,
                   checkCounter, evalSink, lastReturn, recorded, balanceQueries,
                   needEval, protocolOK, firstTripAt>>
    /\ UNCHANGED wmVars

\* connection.getBalance(sink) throws: checkCircuitBreakers rejects
EvalBalanceFails ==
    /\ evalPc = "balance"
    /\ evalPc' = "idle"
    /\ evalResult' = NotTripped
    /\ lastReturn' = Rejected
    /\ fresh' = FALSE
    /\ UNCHANGED <<evalCalls, config, consecutiveFailures, recentTrades, initialSinkBalance,
                   checkCounter, evalSink, recorded, balanceQueries, needEval,
                   protocolOK, firstTripAt>>
    /\ UNCHANGED wmVars

\* resumes after "await check()" of the stop-loss check and returns
EvalAfterCheck3 ==
    /\ evalPc = "afterCheck3"
    /\ lastReturn' = Returned(evalResult)
    /\ evalPc' = "idle"
    /\ fresh' = FALSE
    /\ UNCHANGED <<evalCalls, config, consecutiveFailures, recentTrades, initialSinkBalance,
                   checkCounter, evalResult, evalSink, recorded, balanceQueries,
                   needEval, protocolOK, firstTripAt>>
    /\ UNCHANGED wmVars

BreakerNext ==
    \/ \E b \in InitialSinkBalances : SetInitialSinkBalance(b)
    \/ \E s \in BOOLEAN : recordTradeResult(s)
    \/ \E g \in BOOLEAN : EvalCall(g)
    \/ EvalAfterCheck1
    \/ EvalAfterCheck2
    \/ \E c \in SinkBalances : EvalBalance(c)
    \/ EvalBalanceFails
    \/ EvalAfterCheck3

\* ------------------------------------------------------------------------
\* WalletManager: configuration and environment
\* ------------------------------------------------------------------------

\* generateWallets' batchSize (1000 in the source), scaled down
genBatchSize == 2

\* fundWalletsInParallel's fundBatchSize (50 in the source), scaled down
fundBatchSize == 2

\* fundSingleWallet is called directly (not by fundWalletsInParallel) at most
\* MaxDirectCalls times
MaxDirectCalls == 1

\* fundWalletsInParallel is called at most MaxFundAllCalls times
MaxFundAllCalls == 2

\* MIN_SOL_BUFFER_LAMPORTS_BN, imported from '../constants.js' (the minimum
\* transfer buffer), in the lamports of this model
MIN_SOL_BUFFER_LAMPORTS == 10

\* numWalletsToGenerate; Math.floor(fundAmount * LAMPORTS_PER_SOL);
\* relayerPrivateKeys; sinkPrivateKey set or not; autoScale; concurrency; batchSize
\* (the options that only loadActiveBatch reads are left out of these)
WalletConfigs ==
    { [numWalletsToGenerate |-> 3, fundAmountLamports |-> 50,
       relayerPrivateKeys |-> <<"R1">>, sinkPrivateKey |-> TRUE,
       autoScale |-> TRUE, concurrency |-> 5, batchSize |-> 5],
      [numWalletsToGenerate |-> 3, fundAmountLamports |-> 50,
       relayerPrivateKeys |-> <<>>, sinkPrivateKey |-> FALSE,
       autoScale |-> FALSE, concurrency |-> 5, batchSize |-> 5],
      [numWalletsToGenerate |-> 1, fundAmountLamports |-> 50,
       relayerPrivateKeys |-> <<"R1">>, sinkPrivateKey |-> FALSE,
       autoScale |-> FALSE, concurrency |-> 5, batchSize |-> 5] }

\* a persisted record; "" stands for an absent (falsy) field
StoreRecord(pubkey, publicKey, privateKey, name, isSeasoned) ==
    [pubkey |-> pubkey, publicKey |-> publicKey, privateKey |-> privateKey,
     name |-> name, isSeasoned |-> isSeasoned]

\* the secret key of public id `id`
KeyOf(id) == "sk:" \o id

\* the k-th key pair Keypair.generate() answers: a fresh public id
GenId(k) == "G" \o ToString(k)

StoreIds == {"A", "B", "C"}

AllIds == StoreIds \cup {GenId(k) : k \in 1..8}

\* the secret key of every public id
KeyTable == [id \in AllIds |-> KeyOf(id)]

\* Keypair.fromSecretKey(key) succeeds
ValidKey(key) == \E id \in AllIds : KeyTable[id] = key

\* Keypair.fromSecretKey(key).publicKey.toBase58()
PubOf(key) == CHOOSE id \in AllIds : KeyTable[id] = key

\* what the store may hold when loadOrGenerateWallets runs
Stores ==
    { <<>>,
      << StoreRecord("A", "", KeyOf("A"), "Main", TRUE) >>,
      << StoreRecord("A", "", KeyOf("A"), "Main", TRUE),
         StoreRecord("", "B", KeyOf("B"), "", FALSE) >>,
      << StoreRecord("", "", KeyOf("C"), "", FALSE),
         StoreRecord("A", "", KeyOf("A"), "", FALSE) >>,
      << StoreRecord("A", "", KeyOf("A"), "Main", TRUE),
         StoreRecord("", "A", KeyOf("A"), "Copy", FALSE) >>,
      << StoreRecord("A", "", "garbage", "", FALSE) >>,
      << StoreRecord("", "", "garbage", "", FALSE) >> }

\* what connection.getBalance(wallet) may answer
WalletBalances == {0, 40}

\* Math.floor((0.6 + Math.random() * 0.8) * 1000) lies in 600..1399; the runs
\* below draw it from
Factors == {1000}

\* Math.floor(Math.random() * 4) + 1 lies in 1..4; the runs below draw it from
PartCounts == {1, 2}

\* ------------------------------------------------------------------------
\* WalletManager: loading and generating
\* ------------------------------------------------------------------------

Min(a, b) == IF a < b THEN a ELSE b

Max(a, b) == IF a > b THEN a ELSE b

\* normalizeWalletData throws: a record without pubkey and publicKey whose
\* privateKey is no valid secret key
NormalizeThrows(records) ==
    \E i \in 1..Len(records) :
        records[i].pubkey = "" /\ records[i].publicKey = "" /\ ~ValidKey(records[i].privateKey)

\* normalizeWalletData
normalizeWalletData(records) ==
    [i \in 1..Len(records) |->
        LET w == records[i]
        IN  [pubkey |-> IF w.pubkey # "" THEN w.pubkey
                        ELSE IF w.publicKey # "" THEN w.publicKey
                        ELSE PubOf(w.privateKey),
             privateKey |-> w.privateKey,
             name |-> IF w.name # "" THEN w.name ELSE "Wallet",
             isSeasoned |-> w.isSeasoned]]

Pubkeys(wallets) == {wallets[i].pubkey : i \in 1..Len(wallets)}

\* generateWallets with every batch of full size
GenBatchCountFull(remaining, i) == genBatchSize

\* const size = Math.min(batchSize, remaining - i)
GenBatchCount(remaining, i) == Min(genBatchSize, remaining - i)

\* one pass of generateWallets' loop body up to "await delay(10)":
\* the wallets of the batch; `made` keys were generated before
GenBatch(wallets, remaining, i, made) ==
    [k \in 1..GenBatchCount(remaining, i) |->
        [pubkey |-> GenId(made + k),
         privateKey |-> KeyOf(GenId(made + k)),
         name |-> "Wallet" \o ToString(Len(wallets) + i + 1),
         isSeasoned |-> FALSE]]

\* adjustConcurrency
adjustConcurrency(cfg, poolSize) ==
    [cfg EXCEPT !.concurrency = Min(50, Max(3, (poolSize \div 200) + 3)),
                !.batchSize = Min(20, Max(2, (poolSize \div 300) + 2))]

\* ------------------------------------------------------------------------
\* WalletManager: funding
\* ------------------------------------------------------------------------

\* the threshold taken as the whole funding target
ThresholdWhole(cfg) == cfg.fundAmountLamports

\* fundAmountLamports.mul(8).div(10)
Threshold(cfg) == (cfg.fundAmountLamports * 8) \div 10

\* calculateFundingPart without the cap at the remaining shortfall
calculateFundingPartUncapped(remaining, remainingParts, factor) ==
    LET basePart == ((remaining * factor) \div 1000) \div remainingParts
    IN  Max(basePart, MIN_SOL_BUFFER_LAMPORTS)

\* calculateFundingPart; factor stands for Math.floor((0.6 + Math.random() * 0.8) * 1000)
calculateFundingPart(remaining, remainingParts, factor) ==
    LET basePart == ((remaining * factor) \div 1000) \div remainingParts
        partNum == Max(basePart, MIN_SOL_BUFFER_LAMPORTS)
    IN  Min(partNum, remaining)

\* a fundSingleWallet call: who made it (src, call, batch, rec), where it
\* stands (pc, outcome), its locals (remaining, parts, p, part) and what it
\* did on the network (queries: balance queries, balance: what the balance
\* query answered, -1 before it did, submitted: transfers submitted, sent:
\* lamports of confirmed transfers); overlap: another call for the same id
\* was in flight when it started
NewTask(w, src, call, batch, rec, overlap) ==
    [id |-> w.pubkey, src |-> src, call |-> call, batch |-> batch, rec |-> rec,
     pc |-> "start", outcome |-> "", overlap |-> overlap,
     remaining |-> 0, parts |-> 0, p |-> 0, part |-> 0,
     queries |-> 0, balance |-> -1, submitted |-> 0, sent |-> 0]

\* the call has returned: its locals are gone
Settle(t, outcome) ==
    [t EXCEPT !.pc = "done", !.outcome = outcome,
              !.remaining = 0, !.parts = 0, !.p = 0, !.part = 0]

InFlight(t) == t.pc # "done"

\* the claim forgotten
ClaimNothing(fundedSet, id) == fundedSet

\* this.funded.add(wallet.pubkey)
Claim(fundedSet, id) == fundedSet \cup {id}

\* the claim rolled back when the attempt fails
ReleaseOnFailure(fundedSet, id) == fundedSet \ {id}

\* the catch block of fundSingleWallet: the id is not removed from funded
OnFundFailure(fundedSet, id) == fundedSet

\* fundSingleWallet up to its first await; st = [funded, tasks]
FundOneStart(st, w, src, call, batch, rec) ==
    LET overlap == \E k \in 1..Len(st.tasks) :
                       st.tasks[k].id = w.pubkey /\ InFlight(st.tasks[k])
        t == NewTask(w, src, call, batch, rec, overlap)
    IN  IF w.pubkey \in st.funded
        THEN [funded |-> st.funded, tasks |-> Append(st.tasks, Settle(t, "skipped"))]
        ELSE IF ~ValidKey(w.privateKey)
        THEN [funded |-> Claim(st.funded, w.pubkey),
              tasks |-> Append(st.tasks, Settle(t, "rejected"))]
        ELSE [funded |-> Claim(st.funded, w.pubkey),
              tasks |-> Append(st.tasks, [t EXCEPT !.pc = "balance", !.queries = 1])]

\* the loop test of fundSingleWallet
LoopContinues(t) == t.p < t.parts /\ t.remaining > MIN_SOL_BUFFER_LAMPORTS

\* the loop of fundSingleWallet from its test to the next await: the loop
\* ends, or picking the relayer fails (none loaded), or a transfer is submitted
LoopStep(t, relayers, factor) ==
    IF ~LoopContinues(t) THEN Settle(t, "done")
    ELSE IF Len(relayers) = 0 THEN Settle(t, "failed")
    ELSE [t EXCEPT !.part = calculateFundingPart(t.remaining, t.parts - t.p, factor),
                   !.pc = "send", !.submitted = @ + 1]

\* toCheck.slice(i, i + fundBatchSize).map(wallet => this.fundSingleWallet(wallet))
RECURSIVE StartBatch(_, _, _, _, _, _)
StartBatch(st, toCheck, from, to, call, batch) ==
    IF from > to THEN st
    ELSE StartBatch(FundOneStart(st, toCheck[from], "fundAll", call, batch, from),
                    toCheck, from + 1, to, call, batch)

BatchTasks(ts, call, batch) ==
    {k \in 1..Len(ts) : ts[k].src = "fundAll" /\ ts[k].call = call /\ ts[k].batch = batch}

\* the wait resumes as soon as one call of the batch has settled
BatchAnySettled(ts, call, batch) ==
    \E k \in BatchTasks(ts, call, batch) : ~InFlight(ts[k])

\* await Promise.allSettled(promises) resumes
BatchSettled(ts, call, batch) ==
    \A k \in BatchTasks(ts, call, batch) : ~InFlight(ts[k])

\* the wait rejects when a call of the batch rejected (Promise.all)
ProceedUnlessRejected(ts, call, batch) ==
    \A k \in BatchTasks(ts, call, batch) : ts[k].outcome \notin {"rejected", "failed"}

\* Promise.allSettled never rejects: the loop goes on whatever the outcomes
ProceedAfterBatch(ts, call, batch) == TRUE

\* atCall: funded as it was when fundWalletsInParallel was called (history)
IdleFund == [pc |-> "idle", call |-> 0, toCheck |-> <<>>, i |-> 0, batch |-> 0,
             skipped |-> FALSE, atCall |-> {}]

\* the loop of fundWalletsInParallel from its test to the await; r = [funded, tasks, fund]
FundLoop(st, f) ==
    IF f.i < Len(f.toCheck)
    THEN LET b == StartBatch(st, f.toCheck, f.i + 1,
                             Min(f.i + fundBatchSize, Len(f.toCheck)), f.call, f.batch)
         IN  [funded |-> b.funded, tasks |-> b.tasks, fund |-> [f EXCEPT !.pc = "awaiting"]]
    ELSE [funded |-> st.funded, tasks |-> st.tasks, fund |-> [f EXCEPT !.pc = "done"]]

\* fundWalletsInParallel without its test of relayers.length
fundWalletsInParallelUnguarded(wallets, relayers, st, call) ==
    LET NotFunded(w) == w.pubkey \notin st.funded
    IN  FundLoop(st, [IdleFund EXCEPT !.call = call, !.batch = 1, !.atCall = st.funded,
                                      !.toCheck = SelectSeq(wallets, NotFunded)])

\* fundWalletsInParallel up to its first await (or its return)
fundWalletsInParallel(wallets, relayers, st, call) ==
    IF Len(relayers) = 0
    THEN [funded |-> st.funded, tasks |-> st.tasks,
          fund |-> [IdleFund EXCEPT !.pc = "done", !.call = call, !.skipped = TRUE,
                                    !.atCall = st.funded]]
    ELSE LET NotFunded(w) == w.pubkey \notin st.funded
         IN  FundLoop(st, [IdleFund EXCEPT !.call = call, !.batch = 1, !.atCall = st.funded,
                                           !.toCheck = SelectSeq(wallets, NotFunded)])

\* ------------------------------------------------------------------------
\* WalletManager: cooldowns, trade counts and the active batch
\* ------------------------------------------------------------------------

\* Date.now() when the manager is constructed, in ms since an epoch of the
\* model; later than the epoch by more than inactiveThreshold
StartTime == 1000000000

\* the clock moves at most MaxClockSteps times
MaxClockSteps == 3

\* markWalletUsed is called at most MaxMarks times
MaxMarks == 3

\* new Map()
EmptyMap == [k \in {} |-> 0]

\* map.get(key) || 0
GetOrZero(map, key) == IF key \in DOMAIN map THEN map[key] ELSE 0

\* map.set(key, value)
MapSet(map, key, value) ==
    [k \in DOMAIN map \cup {key} |-> IF k = key THEN value ELSE map[k]]

\* map.delete(key) for every key of keys
MapDelete(map, keys) == [k \in DOMAIN map \ keys |-> map[k]]

\* MAX_COOLDOWN_AGE_MS, imported from '../constants.js' ("a configured max
\* age", shorter than the "long inactivity threshold"), in ms
MAX_COOLDOWN_AGE_MS == 2400

\* const inactiveThreshold = 7 * 24 * 60 * 60 * 1000
inactiveThreshold == 7 * 24 * 60 * 60 * 1000

\* if (count > 1000) this.walletTradeCount.set(key, 1000)
tradeCountCap == 1000

\* if (inactiveWallets.length > 100)
deepCleanupMinimum == 100

\* by how much the clock moves between two calls
ClockMoves == {1, 1200}

\* the largest power of two that is at most n (n >= 1)
RECURSIVE Pow2Floor(_)
Pow2Floor(n) == IF n < 2 THEN 1 ELSE 2 * Pow2Floor(n \div 2)

\* Math.floor(base * (1 + k * 0.2)) as IEEE doubles compute it, for an integer
\* base >= 0 and k in 0..4.  1 + k * 0.2 is the double nearest to 1.2, 1.6 and
\* 1.8 for k = 1, 3, 4 and the product then rounds to the exact value whenever
\* that is an integer; for k = 2 the multiplier is the double just below 1.4,
\* and an exact product N = 1.4 * base that is an integer rounds to the double
\* below N when 4 * base > 5 * 2^e, 2^e <= N < 2^(e+1).
FloorOfProduct(base, k) ==
    LET exact == (base * (5 + k)) \div 5
    IN  IF k = 2 /\ base > 0 /\ base % 5 = 0 /\ 4 * base > 5 * Pow2Floor((7 * base) \div 5)
        THEN exact - 1
        ELSE exact

\* getRandomNumberBetween(min, max), imported from '../utils.js': the bases
\* the runs below draw
Bases(cfg) == {cfg.minWalletCooldownMs, cfg.maxWalletCooldownMs}

\* getWalletCooldown with the trade count left out of the multiplier
getWalletCooldownFlat(counts, walletKey, baseCooldown) == FloorOfProduct(baseCooldown, 0)

\* getWalletCooldown; baseCooldown stands for getRandomNumberBetween(min, max)
getWalletCooldown(counts, walletKey, baseCooldown) ==
    FloorOfProduct(baseCooldown, GetOrZero(counts, walletKey) % 5)

\* the keys of the entries older than threshold, the boundary included
ExpiredKeysInclusive(cooldowns, at, threshold) ==
    {key \in DOMAIN cooldowns : at - cooldowns[key] >= threshold}

\* for (const [key, timestamp] of entries) if (now - timestamp > threshold) push(key)
ExpiredKeys(cooldowns, at, threshold) ==
    {key \in DOMAIN cooldowns : at - cooldowns[key] > threshold}

\* the trade-count pass of cleanupOldCooldowns
CapTradeCounts(counts) ==
    [key \in DOMAIN counts |->
        IF counts[key] > tradeCountCap THEN tradeCountCap ELSE counts[key]]

\* cleanupOldCooldowns(now); pass2 stands for Math.random() < WALLET_CLEANUP_CHANCE,
\* pass3 for Math.random() < 0.001
cleanupOldCooldowns(cooldowns, counts, at, pass2, pass3) ==
    LET aged == MapDelete(cooldowns, ExpiredKeys(cooldowns, at, MAX_COOLDOWN_AGE_MS))
        capped == IF pass2 THEN CapTradeCounts(counts) ELSE counts
        inactiveWallets == ExpiredKeys(aged, at, inactiveThreshold)
    IN  IF pass3 /\ Cardinality(inactiveWallets) > deepCleanupMinimum
        THEN [cooldowns |-> MapDelete(aged, inactiveWallets),
              counts |-> MapDelete(capped, inactiveWallets)]
        ELSE [cooldowns |-> aged, counts |-> capped]

\* [a[i], a[j]] = [a[j], a[i]]
Swap(a, i, j) == [a EXCEPT ![i] = a[j], ![j] = a[i]]

\* the loop of shuffleArray from position i down; js[i] stands for
\* Math.floor(Math.random() * (i + 1)), counted from 1
RECURSIVE ShuffleFrom(_, _, _)
ShuffleFrom(a, i, js) ==
    IF i < 2 THEN a ELSE ShuffleFrom(Swap(a, i, js[i]), i - 1, js)

\* shuffleArray
shuffleArray(array, js) == ShuffleFrom(array, Len(array), js)

\* the random draws of shuffleArray on an array of at most n elements; none
\* are made (the identity stands for that) when shuffleWallets is off
ShuffleDraws(cfg, n) ==
    IF cfg.shuffleWallets
    THEN {js \in [1..n -> 1..n] : \A i \in 1..n : js[i] <= i}
    ELSE {[i \in 1..n |-> i]}

\* the filter of loadActiveBatch without its cooldown test
CooldownIgnored(at, lastTrade, cooldown) == TRUE

\* const cooldownPassed = now - lastTrade >= cooldown
CooldownPassed(at, lastTrade, cooldown) == at - lastTrade >= cooldown

\* const isSeasoned = !requireSeasoning || w.isSeasoned === true
IsSeasoned(cfg, w) == ~cfg.enableSeasoning \/ w.isSeasoned

\* the entry of activeWallets made from record w
ActiveEntry(w) == [keypair |-> w.privateKey, name |-> w.name, pubkey |-> w.pubkey]

\* the branch of loadActiveBatch for ready.length === 0, raising an error
WhenNoneReadyThrows(active) ==
    [kind |-> "error", selected |-> <<>>, batch |-> <<>>, active |-> active]

\* the branch of loadActiveBatch for ready.length === 0: return []
WhenNoneReady(active) ==
    [kind |-> "result", selected |-> <<>>, batch |-> <<>>, active |-> active]

\* loadActiveBatch after the filter: shuffle, slice, build activeWallets
\* (Keypair.fromSecretKey throws on an invalid key) and return them
WhenSomeReady(wallets, cfg, ready, js, active) ==
    LET shuffled == IF cfg.shuffleWallets THEN shuffleArray(ready, js) ELSE ready
        selected == SubSeq(shuffled, 1, Min(cfg.batchSize, Len(shuffled)))
        entries == [n \in 1..Len(selected) |-> ActiveEntry(wallets[selected[n]])]
    IN  IF \E n \in 1..Len(selected) : ~ValidKey(wallets[selected[n]].privateKey)
        THEN [kind |-> "error", selected |-> selected, batch |-> <<>>, active |-> active]
        ELSE [kind |-> "result", selected |-> selected, batch |-> entries,
              active |-> entries]

\* no loadActiveBatch call yet.  Of the last call: fresh (nothing happened
\* since), kind (it returned or threw), selected (the positions in walletData
\* of the records it selected), batch (what it returned), bases and evaluated
\* (per record, the base drawn and the cooldown getWalletCooldown returned)
NoSelect == [fresh |-> FALSE, kind |-> "none", selected |-> <<>>, batch |-> <<>>,
             bases |-> <<>>, evaluated |-> <<>>]

\* the sum of the values of map
RECURSIVE SumOver(_, _)
SumOver(map, keys) ==
    IF keys = {} THEN 0
    ELSE LET key == CHOOSE x \in keys : TRUE
         IN  map[key] + SumOver(map, keys \ {key})

\* PERSONALITIES, imported from '../constants.js': the fixed finite set of tags
PERSONALITIES == <<"flipper", "hodler", "momentum">>

\* getPersonality: this.walletPersonalities.get(key) || 'flipper'
getPersonality(personalities, key) ==
    IF key \in DOMAIN personalities THEN personalities[key] ELSE "flipper"

\* ------------------------------------------------------------------------
WalletConstructed(cfg, persisted) ==
    /\ walletConfig = cfg
    /\ store = persisted
    /\ walletData = <<>>
    /\ allPubkeys = {}
    /\ funded = {}
    /\ relayerKeypairs = <<>>
    /\ sinkKeypair = FALSE
    /\ loadPc = "new"
    /\ gen = [remaining |-> 0, i |-> 0, made |-> 0]
    /\ fund = IdleFund
    /\ tasks = <<>>
    /\ activeWallets = <<>>
    /\ walletCooldowns = EmptyMap
    /\ walletTradeCount = EmptyMap
    /\ walletPersonalities = EmptyMap
    /\ now = StartTime
    /\ clockSteps = 0
    /\ usedAt = EmptyMap
    /\ select = NoSelect

\* ------------------------------------------------------------------------
\* WalletManager: actions
\* ------------------------------------------------------------------------

\* loadOrGenerateWallets from loadSpecialWallets to the await of
\* fundWalletsInParallel; the pool is `wallets`
PoolReady(wallets) ==
    LET cfg == walletConfig
        relayers == IF Len(cfg.relayerPrivateKeys) > 0 THEN cfg.relayerPrivateKeys
                    ELSE relayerKeypairs
        r == fundWalletsInParallel(wallets, relayers, [funded |-> funded, tasks |-> tasks],
                                   fund.call + 1)
    IN  /\ sinkKeypair' = (IF cfg.sinkPrivateKey THEN TRUE ELSE sinkKeypair)
        /\ relayerKeypairs' = relayers
        /\ walletConfig' = IF cfg.autoScale THEN adjustConcurrency(cfg, Len(wallets)) ELSE cfg
        /\ funded' = r.funded
        /\ tasks' = r.tasks
        /\ fund' = r.fund
        /\ loadPc' = IF r.fund.pc = "done" THEN "done" ELSE "funding"

\* loadOrGenerateWallets is called: it awaits walletDataLoader.loadWallets()
LoadCall ==
    /\ loadPc = "new"
    /\ loadPc' = "loading"
    /\ UNCHANGED <<walletConfig, store, walletData, allPubkeys, funded, relayerKeypairs,
                   sinkKeypair, gen, fund, tasks>>
    /\ UNCHANGED <<cbVars, rotVars>>

\* loadWallets() rejects: loadOrGenerateWallets logs and rethrows
LoadFails ==
    /\ loadPc = "loading"
    /\ loadPc' = "failed"
    /\ UNCHANGED <<walletConfig, store, walletData, allPubkeys, funded, relayerKeypairs,
                   sinkKeypair, gen, fund, tasks>>
    /\ UNCHANGED <<cbVars, rotVars>>

\* loadWallets() answers: normalize, collect the ids, then either the first
\* batch of generateWallets (up to its delay) or straight on to funding
LoadReturns ==
    /\ loadPc = "loading"
    /\ IF NormalizeThrows(store)
       THEN /\ loadPc' = "failed"
            /\ walletData' = store
            /\ UNCHANGED <<walletConfig, allPubkeys, funded, relayerKeypairs,
                           sinkKeypair, gen, fund, tasks>>
       ELSE LET wallets == normalizeWalletData(store)
                remaining == walletConfig.numWalletsToGenerate - Len(wallets)
            IN  IF Len(wallets) < walletConfig.numWalletsToGenerate
                THEN LET batch == GenBatch(wallets, remaining, 0, 0)
                     IN  /\ walletData' = wallets \o batch
                         /\ allPubkeys' = Pubkeys(wallets) \cup Pubkeys(batch)
                         /\ gen' = [remaining |-> remaining, i |-> 0, made |-> Len(batch)]
                         /\ loadPc' = "genDelay"
                         /\ UNCHANGED <<walletConfig, funded, relayerKeypairs,
                                        sinkKeypair, fund, tasks>>
                ELSE /\ walletData' = wallets
                     /\ allPubkeys' = Pubkeys(wallets)
                     /\ PoolReady(wallets)
                     /\ UNCHANGED gen
    /\ UNCHANGED store
    /\ UNCHANGED <<cbVars, rotVars>>

\* generateWallets resumes after "await delay(10)": the next batch, or
\* the loop ends and writeWallets is awaited
GenDelayElapses ==
    /\ loadPc = "genDelay"
    /\ LET i == gen.i + genBatchSize
       IN  IF i < gen.remaining
           THEN LET batch == GenBatch(walletData, gen.remaining, i, gen.made)
                IN  /\ walletData' = walletData \o batch
                    /\ allPubkeys' = allPubkeys \cup Pubkeys(batch)
                    /\ gen' = [gen EXCEPT !.i = i, !.made = @ + Len(batch)]
                    /\ UNCHANGED loadPc
           ELSE /\ loadPc' = "writing"
                /\ gen' = [gen EXCEPT !.i = i]
                /\ UNCHANGED <<walletData, allPubkeys>>
    /\ UNCHANGED <<walletConfig, store, funded, relayerKeypairs, sinkKeypair, fund, tasks>>
    /\ UNCHANGED <<cbVars, rotVars>>

\* writeWallets resolves: generateWallets returns, loadOrGenerateWallets goes on
WriteReturns ==
    /\ loadPc = "writing"
    /\ PoolReady(walletData)
    /\ UNCHANGED <<store, walletData, allPubkeys, gen>>
    /\ UNCHANGED <<cbVars, rotVars>>

\* writeWallets rejects: loadOrGenerateWallets logs and rethrows
WriteFails ==
    /\ loadPc = "writing"
    /\ loadPc' = "failed"
    /\ UNCHANGED <<walletConfig, store, walletData, allPubkeys, funded, relayerKeypairs,
                   sinkKeypair, gen, fund, tasks>>
    /\ UNCHANGED <<cbVars, rotVars>>

DirectCalls == Cardinality({k \in 1..Len(tasks) : tasks[k].src = "direct"})

\* a caller outside fundWalletsInParallel calls fundSingleWallet(walletData[i])
CallFundOne(i) ==
    /\ i \in 1..Len(walletData)
    /\ loadPc \in {"genDelay", "writing", "funding", "done"}
    /\ DirectCalls < MaxDirectCalls
    /\ LET r == FundOneStart([funded |-> funded, tasks |-> tasks], walletData[i],
                             "direct", 0, 0, 0)
       IN  /\ funded' = r.funded
           /\ tasks' = r.tasks
    /\ UNCHANGED <<walletConfig, store, walletData, allPubkeys, relayerKeypairs,
                   sinkKeypair, loadPc, gen, fund>>
    /\ UNCHANGED <<cbVars, rotVars>>

\* fundWalletsInParallel is called again after loadOrGenerateWallets finished
CallFundAll ==
    /\ loadPc = "done"
    /\ fund.pc = "done"
    /\ fund.call < MaxFundAllCalls
    /\ LET r == fundWalletsInParallel(walletData, relayerKeypairs,
                                      [funded |-> funded, tasks |-> tasks], fund.call + 1)
       IN  /\ funded' = r.funded
           /\ tasks' = r.tasks
           /\ fund' = r.fund
    /\ UNCHANGED <<walletConfig, store, walletData, allPubkeys, relayerKeypairs,
                   sinkKeypair, loadPc, gen>>
    /\ UNCHANGED <<cbVars, rotVars>>

\* fundWalletsInParallel resumes after Promise.allSettled: the next batch,
\* or it returns (and with it loadOrGenerateWallets, when that awaits it)
FundAllResume ==
    /\ fund.pc = "awaiting"
    /\ BatchSettled(tasks, fund.call, fund.batch)
    /\ IF ProceedAfterBatch(tasks, fund.call, fund.batch)
       THEN LET r == FundLoop([funded |-> funded, tasks |-> tasks],
                              [fund EXCEPT !.i = @ + fundBatchSize, !.batch = @ + 1])
            IN  /\ funded' = r.funded
                /\ tasks' = r.tasks
                /\ fund' = r.fund
                /\ loadPc' = IF loadPc = "funding" /\ r.fund.pc = "done" THEN "done" ELSE loadPc
       ELSE /\ fund' = [fund EXCEPT !.pc = "aborted"]
            /\ loadPc' = IF loadPc = "funding" THEN "failed" ELSE loadPc
            /\ UNCHANGED <<funded, tasks>>
    /\ UNCHANGED <<walletConfig, store, walletData, allPubkeys, relayerKeypairs,
                   sinkKeypair, gen>>
    /\ UNCHANGED <<cbVars, rotVars>>

\* the frame of a step of fundSingleWallet call k
TaskFrame ==
    /\ UNCHANGED <<walletConfig, store, walletData, allPubkeys, relayerKeypairs,
                   sinkKeypair, loadPc, gen, fund>>
    /\ UNCHANGED <<cbVars, rotVars>>

\* a network call of fundSingleWallet call k throws: the catch block
TaskFails(k) ==
    /\ tasks' = [tasks EXCEPT ![k] = Settle(@, "failed")]
    /\ funded' = OnFundFailure(funded, tasks[k].id)
    /\ TaskFrame

\* getBalance answers: funded already, or the shortfall, the number of parts
\* and the loop up to the first transfer
BalanceReturns(k, balance, parts, factor) ==
    /\ k \in 1..Len(tasks)
    /\ tasks[k].pc = "balance"
    /\ IF balance >= Threshold(walletConfig)
       THEN tasks' = [tasks EXCEPT ![k] = Settle([@ EXCEPT !.balance = balance], "funded")]
       ELSE tasks' = [tasks EXCEPT ![k] =
                LoopStep([@ EXCEPT !.balance = balance,
                                   !.remaining = walletConfig.fundAmountLamports - balance,
                                   !.parts = parts, !.p = 0],
                         relayerKeypairs, factor)]
    /\ UNCHANGED funded
    /\ TaskFrame

BalanceFails(k) ==
    /\ k \in 1..Len(tasks)
    /\ tasks[k].pc = "balance"
    /\ TaskFails(k)

\* sendTransaction answers the signature: confirmTransaction is awaited
SendReturns(k) ==
    /\ k \in 1..Len(tasks)
    /\ tasks[k].pc = "send"
    /\ tasks' = [tasks EXCEPT ![k].pc = "confirm"]
    /\ UNCHANGED funded
    /\ TaskFrame

SendFails(k) ==
    /\ k \in 1..Len(tasks)
    /\ tasks[k].pc = "send"
    /\ TaskFails(k)

\* confirmTransaction answers: remaining = remaining.sub(cappedPart), then the delay
ConfirmReturns(k) ==
    /\ k \in 1..Len(tasks)
    /\ tasks[k].pc = "confirm"
    /\ tasks' = [tasks EXCEPT ![k] = [@ EXCEPT !.remaining = @ - tasks[k].part,
                                               !.sent = @ + tasks[k].part,
                                               !.pc = "delay"]]
    /\ UNCHANGED funded
    /\ TaskFrame

ConfirmFails(k) ==
    /\ k \in 1..Len(tasks)
    /\ tasks[k].pc = "confirm"
    /\ TaskFails(k)

\* the delay after a transfer elapses: p++, the loop test, the next transfer
DelayElapses(k, factor) ==
    /\ k \in 1..Len(tasks)
    /\ tasks[k].pc = "delay"
    /\ tasks' = [tasks EXCEPT ![k] = LoopStep([@ EXCEPT !.p = @ + 1], relayerKeypairs, factor)]
    /\ UNCHANGED funded
    /\ TaskFrame

\* a step of a fundSingleWallet call in flight
TaskStep ==
    \E k \in 1..Len(tasks) :
        \/ \E b \in WalletBalances, n \in PartCounts, f \in Factors : BalanceReturns(k, b, n, f)
        \/ BalanceFails(k)
        \/ SendReturns(k)
        \/ SendFails(k)
        \/ ConfirmReturns(k)
        \/ ConfirmFails(k)
        \/ \E f \in Factors : DelayElapses(k, f)

WalletNext ==
    \/ LoadCall
    \/ LoadFails
    \/ LoadReturns
    \/ GenDelayElapses
    \/ WriteReturns
    \/ WriteFails
    \/ \E i \in 1..Len(walletData) : CallFundOne(i)
    \/ CallFundAll
    \/ FundAllResume
    \/ TaskStep

\* the frame of the calls below: they touch neither the pool nor the funding
RotationFrame ==
    /\ UNCHANGED <<walletConfig, store, walletData, allPubkeys, funded, relayerKeypairs,
                   sinkKeypair, loadPc, gen, fund, tasks>>
    /\ UNCHANGED cbVars

\* time passes between two calls of the orchestrator
Tick(d) ==
    /\ clockSteps < MaxClockSteps
    /\ now' = now + d
    /\ clockSteps' = clockSteps + 1
    /\ select' = [select EXCEPT !.fresh = FALSE]
    /\ UNCHANGED <<activeWallets, walletCooldowns, walletTradeCount,
                   walletPersonalities, usedAt>>
    /\ RotationFrame

\* loadActiveBatch (it has no await: one step).  cleaned is what
\* cleanupOldCooldowns(now) left, bases[i] the base cooldown drawn for
\* walletData[i], js the draws of the shuffle.
loadActiveBatch(cleaned, bases, js) ==
    /\ LET evaluated == [i \in 1..Len(walletData) |->
                            getWalletCooldown(cleaned.counts, walletData[i].pubkey, bases[i])]
           Ready(i) == /\ CooldownPassed(now, GetOrZero(cleaned.cooldowns, walletData[i].pubkey),
                                          evaluated[i])
                       /\ IsSeasoned(walletConfig, walletData[i])
           ready == SelectSeq([i \in 1..Len(walletData) |-> i], Ready)
           r == IF Len(ready) = 0 THEN WhenNoneReady(activeWallets)
                ELSE WhenSomeReady(walletData, walletConfig, ready, js, activeWallets)
       IN  /\ walletCooldowns' = cleaned.cooldowns
           /\ walletTradeCount' = cleaned.counts
           /\ activeWallets' = r.active
           /\ select' = [fresh |-> TRUE, kind |-> r.kind, selected |-> r.selected,
                          batch |-> r.batch, bases |-> bases, evaluated |-> evaluated]
    /\ UNCHANGED <<now, clockSteps, walletPersonalities, usedAt>>
    /\ RotationFrame

\* the orchestrator calls loadActiveBatch once loadOrGenerateWallets has
\* returned; the random numbers the call draws
CallLoadActiveBatch ==
    /\ loadPc = "done"
    /\ \E cleaned \in { cleanupOldCooldowns(walletCooldowns, walletTradeCount, now,
                                              pass2, pass3) : pass2, pass3 \in BOOLEAN } :
           \E bases \in [1..Len(walletData) -> Bases(walletConfig)],
              js \in ShuffleDraws(walletConfig, Len(walletData)) :
               loadActiveBatch(cleaned, bases, js)

\* markWalletUsed(activeWallets[n])
markWalletUsed(n) ==
    /\ n \in 1..Len(activeWallets)
    /\ SumOver(walletTradeCount, DOMAIN walletTradeCount) < MaxMarks
    /\ LET walletKey == PubOf(activeWallets[n].keypair)
       IN  /\ walletCooldowns' = MapSet(walletCooldowns, walletKey, now)
           /\ walletTradeCount' = MapSet(walletTradeCount, walletKey,
                                          GetOrZero(walletTradeCount, walletKey) + 1)
           /\ usedAt' = MapSet(usedAt, walletKey, now)
    /\ select' = [select EXCEPT !.fresh = FALSE]
    /\ UNCHANGED <<now, clockSteps, activeWallets, walletPersonalities>>
    /\ RotationFrame

\* markWalletUsed(activeWallets[n]) called `times` times, one trade after the
\* other, the last of them at `now`: each call overwrites the timestamp and
\* adds 1 to the trade count
markWalletUsedTimes(n, times) ==
    /\ n \in 1..Len(activeWallets)
    /\ SumOver(walletTradeCount, DOMAIN walletTradeCount) < MaxMarks
    /\ LET walletKey == PubOf(activeWallets[n].keypair)
       IN  /\ walletCooldowns' = MapSet(walletCooldowns, walletKey, now)
           /\ walletTradeCount' = MapSet(walletTradeCount, walletKey,
                                          GetOrZero(walletTradeCount, walletKey) + times)
           /\ usedAt' = MapSet(usedAt, walletKey, now)
    /\ select' = [select EXCEPT !.fresh = FALSE]
    /\ UNCHANGED <<now, clockSteps, activeWallets, walletPersonalities>>
    /\ RotationFrame

\* assignPersonalities; choice[id] stands for Math.floor(Math.random() * PERSONALITIES.length)
assignPersonalities(choice) ==
    /\ walletPersonalities' =
           [key \in DOMAIN walletPersonalities \cup allPubkeys |->
               IF key \in allPubkeys THEN PERSONALITIES[choice[key] + 1]
               ELSE walletPersonalities[key]]
    /\ select' = [select EXCEPT !.fresh = FALSE]
    /\ UNCHANGED <<now, clockSteps, activeWallets, walletCooldowns, walletTradeCount, usedAt>>
    /\ RotationFrame

\* ------------------------------------------------------------------------
\* Specifications
\* ------------------------------------------------------------------------

\* the wallet manager as constructed and never called
WalletIdle ==
    WalletConstructed([numWalletsToGenerate |-> 0, fundAmountLamports |-> 0,
                       relayerPrivateKeys |-> <<>>, sinkPrivateKey |-> FALSE,
                       autoScale |-> FALSE, concurrency |-> 0, batchSize |-> 0], <<>>)

\* the circuit breaker as constructed and never called
BreakerIdle ==
    BreakerConstructed([enableCircuitBreaker |-> FALSE, maxConsecutiveFailures |-> 0,
                        failureRateWindow |-> 0, maxFailureRate |-> 0,
                        emergencyStopLoss |-> 0])

BreakerInit ==
    \E cfg \in BreakerConfigs : BreakerConstructed(cfg) /\ WalletIdle

WalletInit ==
    \E cfg \in WalletConfigs, persisted \in Stores :
        WalletConstructed(cfg, persisted) /\ BreakerIdle

SpecBreaker == BreakerInit /\ [][BreakerNext]_vars

SpecWallet == WalletInit /\ [][WalletNext]_vars

\* Every network call eventually answers or throws, and the event loop runs
\* every continuation that is ready.
\* the runs that fund a pool of three from relayers, from a store of one record
FairWalletInit ==
    \E cfg \in WalletConfigs, persisted \in Stores :
        /\ Len(cfg.relayerPrivateKeys) > 0 /\ cfg.numWalletsToGenerate = 3
        /\ Len(persisted) = 1
        /\ WalletConstructed(cfg, persisted) /\ BreakerIdle

FairSpecWallet ==
    FairWalletInit /\ [][WalletNext]_vars /\ WF_vars(TaskStep) /\ WF_vars(FundAllResume)

\* The rotation of the pool: no relayers are configured, the store answers,
\* and the orchestrator selects batches and marks wallets used once
\* loadOrGenerateWallets has returned.

\* enableSeasoning, shuffleWallets, batchSize, minWalletCooldownMs,
\* maxWalletCooldownMs; numWalletsToGenerate; no relayers, no sink
RotationConfigs ==
    { [numWalletsToGenerate |-> 2, fundAmountLamports |-> 50,
       relayerPrivateKeys |-> <<>>, sinkPrivateKey |-> FALSE,
       autoScale |-> c[4], concurrency |-> 5, batchSize |-> 1,
       enableSeasoning |-> c[1], shuffleWallets |-> c[2],
       minWalletCooldownMs |-> 1000, maxWalletCooldownMs |-> c[3]] :
      c \in { <<FALSE, FALSE, 1000, FALSE>>, <<FALSE, TRUE, 1300, TRUE>>,
              <<TRUE, FALSE, 1300, FALSE>>, <<TRUE, TRUE, 1000, FALSE>> } }

\* what the store may hold in these runs
RotationStores ==
    { << StoreRecord("A", "", KeyOf("A"), "Main", TRUE) >>,
      << StoreRecord("A", "", KeyOf("A"), "Main", TRUE),
         StoreRecord("", "B", KeyOf("B"), "", TRUE) >>,
      << StoreRecord("A", "", "garbage", "", TRUE),
         StoreRecord("", "", KeyOf("C"), "", FALSE) >> }

RotationInit ==
    \E cfg \in RotationConfigs, persisted \in RotationStores :
        WalletConstructed(cfg, persisted) /\ BreakerIdle

RotationNext ==
    \/ LoadCall
    \/ LoadReturns
    \/ GenDelayElapses
    \/ WriteReturns
    \/ \E d \in ClockMoves : Tick(d)
    \/ CallLoadActiveBatch
    \/ \E n \in 1..Len(activeWallets) : markWalletUsed(n)

SpecRotation == RotationInit /\ [][RotationNext]_vars

\* The rotation of a pool whose wallets have traded about a thousand times:
\* the numbers of trades a wallet makes before the next selection
TradeRuns == {1000, 1001, 1003, 1005}

CappingInit ==
    \E cfg \in RotationConfigs, persisted \in RotationStores :
        WalletConstructed(cfg, persisted) /\ BreakerIdle

TradesThenSelect ==
    \/ CallLoadActiveBatch
    \/ \E n \in 1..Len(activeWallets), times \in TradeRuns : markWalletUsedTimes(n, times)

CappingNext ==
    \/ LoadCall
    \/ LoadReturns
    \/ GenDelayElapses
    \/ WriteReturns
    \/ \E d \in ClockMoves : Tick(d)
    \/ TradesThenSelect

SpecCapping == CappingInit /\ [][CappingNext]_vars

\* The personalities: the pool is loaded and assignPersonalities is called
\* any number of times, at any point.
PersonalityInit ==
    \E cfg \in WalletConfigs, persisted \in Stores :
        /\ Len(cfg.relayerPrivateKeys) = 0
        /\ WalletConstructed(cfg, persisted) /\ BreakerIdle

PersonalityNext ==
    \/ LoadCall
    \/ LoadFails
    \/ LoadReturns
    \/ GenDelayElapses
    \/ WriteReturns
    \/ WriteFails
    \/ \E choice \in [allPubkeys -> 0..(Len(PERSONALITIES) - 1)] : assignPersonalities(choice)

SpecPersonality == PersonalityInit /\ [][PersonalityNext]_vars

\* One fundSingleWallet run in detail: a pool of one stored record, funded by
\* loadOrGenerateWallets from two relayers, every network call answering.

\* Math.floor(fundAmount * LAMPORTS_PER_SOL) of these runs
FundingTargets == {44, 100, 1000}

\* what connection.getBalance(wallet) may answer in these runs
FundingBalances == {0, 34, 35, 60, 79, 80, 400, 799, 800, 1200}

\* the values of Math.floor((0.6 + Math.random() * 0.8) * 1000) drawn in these runs
FundingFactors == {600 + 100 * k : k \in 0..7} \cup {1399}

\* the values of Math.floor(Math.random() * 4) + 1
FundingPartCounts == 1..4

FundingInit ==
    \E target \in FundingTargets :
        /\ WalletConstructed([numWalletsToGenerate |-> 1, fundAmountLamports |-> target,
                              relayerPrivateKeys |-> <<"R1", "R2">>, sinkPrivateKey |-> FALSE,
                              autoScale |-> FALSE, concurrency |-> 5, batchSize |-> 5],
                             << StoreRecord("A", "", KeyOf("A"), "Main", TRUE) >>)
        /\ BreakerIdle

\* a step of the fundSingleWallet call in flight, its network calls answering
FundingTaskStep ==
    \E k \in 1..Len(tasks) :
        \/ \E b \in FundingBalances, n \in FundingPartCounts, f \in FundingFactors :
               BalanceReturns(k, b, n, f)
        \/ SendReturns(k)
        \/ ConfirmReturns(k)
        \/ \E f \in FundingFactors : DelayElapses(k, f)

FundingNext ==
    \/ LoadCall
    \/ LoadReturns
    \/ FundAllResume
    \/ FundingTaskStep

SpecFunding == FundingInit /\ [][FundingNext]_vars

\* ------------------------------------------------------------------------
\* Properties of the circuit breaker (checked under SpecBreaker)
\* ------------------------------------------------------------------------

\* the last n elements of s, in order
LastN(s, n) == SubSeq(s, Len(s) - (IF Len(s) < n THEN Len(s) ELSE n) + 1, Len(s))

RECURSIVE CountFalse(_)
CountFalse(s) == IF s = <<>> THEN 0
                 ELSE (IF Head(s) THEN 0 ELSE 1) + CountFalse(Tail(s))

\* length of the run of failures that ends the history
RECURSIVE TrailingFailures(_)
TrailingFailures(s) == IF s = <<>> \/ s[Len(s)] THEN 0
                       ELSE 1 + TrailingFailures(SubSeq(s, 1, Len(s) - 1))

\* the state right after check k of the evaluate call in flight ran
JustRan(pc) == fresh /\ evalPc = pc

\* C1: once an evaluate call has returned tripped = TRUE, the next evaluate
\* call that returns a result returns tripped = TRUE as well, whatever was
\* recorded in between.
C1_TrippedIsTerminal ==
    [][(lastReturn.kind = "result" /\ lastReturn.tripped /\ lastReturn'.kind = "result")
        => lastReturn'.tripped]_vars

\* C3 as stated: with evaluate run after every recordTradeResult, the
\* consecutive-failure check trips exactly when consecutiveFailures equals
\* maxConsecutiveFailures.
C3_TripsIffEqual ==
    (JustRan("afterCheck1") /\ protocolOK)
        => (evalResult.tripped <=> consecutiveFailures = config.maxConsecutiveFailures)

\* C3 amended: the consecutive-failure check trips exactly when the run of
\* failures that ends the recorded history has reached maxConsecutiveFailures
\* (at least, not only equal); and with evaluate run after every
\* recordTradeResult, the first trip of a run of failures is at its
\* maxConsecutiveFailures-th failure.
C3_TripsIffAtLeast ==
    /\ JustRan("afterCheck1")
         => /\ evalResult.tripped
                 <=> TrailingFailures(recorded) >= config.maxConsecutiveFailures
            /\ evalResult.tripped
                 => evalResult.reason = "Circuit Breaker: "
                        \o ToString(TrailingFailures(recorded)) \o " consecutive failures"
    /\ protocolOK => firstTripAt \in {0, config.maxConsecutiveFailures}

\* C3 witness: evaluate ran after every record, the first trip of the run was
\* at the M-th failure and the check trips again at the (M+1)-th.
C3_Witness ==
    /\ JustRan("afterCheck1") /\ protocolOK /\ evalResult.tripped
    /\ firstTripAt = config.maxConsecutiveFailures
    /\ consecutiveFailures = config.maxConsecutiveFailures + 1

\* C4: with the breaker enabled, recentTrades holds the last
\* failureRateWindow recorded outcomes in recording order; its length is
\* min(number recorded, failureRateWindow).
C4_WindowIsLastW ==
    config.enableCircuitBreaker
        => /\ recentTrades = LastN(recorded, config.failureRateWindow)
           /\ Len(recentTrades) <= config.failureRateWindow
           /\ Len(recentTrades) = IF Len(recorded) < config.failureRateWindow
                                  THEN Len(recorded) ELSE config.failureRateWindow

\* C4 witness: more outcomes than the window were recorded, the evicted
\* one differs from the one that took its place
C4_Witness ==
    /\ config.enableCircuitBreaker
    /\ Len(recorded) = config.failureRateWindow + 2
    /\ recorded[1] # recorded[config.failureRateWindow + 1]
    /\ recorded[2] # recorded[config.failureRateWindow + 2]

\* C5: the failure-rate check does not trip while fewer than W outcomes are
\* recorded; with W or more recorded it trips exactly when the failures among
\* the last W, divided by W, exceed maxFailureRate (strictly); for W = 10,
\* 4 failures and maxFailureRate 0.3 it trips and reports 40.0%.
C5_FailureRateCheck ==
    JustRan("afterCheck2")
        => LET W == config.failureRateWindow
               f == CountFalse(LastN(recorded, W))
           IN  /\ Len(recorded) < W => ~evalResult.tripped
               /\ Len(recorded) >= W
                    => (evalResult.tripped <=> f * 1000 > config.maxFailureRate * W)
               /\ (Len(recorded) >= W /\ f * 1000 = config.maxFailureRate * W)
                    => ~evalResult.tripped
               /\ (Len(recorded) >= W /\ W = 10 /\ f = 4 /\ config.maxFailureRate = 300)
                    => evalResult = [tripped |-> TRUE, reason |->
                         "Circuit Breaker: 40.0% failure rate (last 10 trades)"]

\* C5 witness: window of 10 full with 4 failures, threshold 0.3, tripped
C5_Witness ==
    /\ JustRan("afterCheck2")
    /\ config.failureRateWindow = 10 /\ config.maxFailureRate = 300
    /\ Len(recentTrades) = 10 /\ Failures(recentTrades) = 4
    /\ evalResult.tripped

\* C6: with the feature configured off, every evaluate call returns
\* tripped = FALSE with an empty reason, the sink balance is never queried,
\* and consecutiveFailures, recentTrades and checkCounter keep the values
\* the constructor gave them.
C6_DisabledIsNoOp ==
    ~config.enableCircuitBreaker
        => /\ consecutiveFailures = 0
           /\ recentTrades = <<>>
           /\ checkCounter = 0
           /\ balanceQueries = 0
           /\ evalPc = "idle"
           /\ lastReturn \in {NoReturn, [kind |-> "result", tripped |-> FALSE, reason |-> ""]}

\* C6 witness: feature off, enough failures recorded to trip an enabled
\* breaker, a sink balance on record, and evaluate has returned
C6_Witness ==
    /\ ~config.enableCircuitBreaker
    /\ TrailingFailures(recorded) >= config.maxConsecutiveFailures
    /\ Len(recorded) >= config.failureRateWindow
    /\ initialSinkBalance > 0
    /\ lastReturn.kind = "result"
    /\ ~needEval

\* ------------------------------------------------------------------------
\* Properties of the wallet manager (checked under SpecWallet, C8 under
\* FairSpecWallet)
\* ------------------------------------------------------------------------

TasksOf(id) == {k \in 1..Len(tasks) : tasks[k].id = id}

FundAllTasks == {k \in 1..Len(tasks) : tasks[k].src = "fundAll"}

TaskIds == {tasks[k].id : k \in 1..Len(tasks)}

\* C2: among all fundSingleWallet calls for one id, however interleaved, at
\* most one queries the balance and at most one submits transfers; every
\* other call returns at once with no network operation.
C2_OneClaimPerId ==
    \A id \in TaskIds :
        /\ Cardinality({k \in TasksOf(id) : tasks[k].queries > 0}) <= 1
        /\ Cardinality({k \in TasksOf(id) : tasks[k].submitted > 0}) <= 1
        /\ Cardinality({k \in TasksOf(id) : tasks[k].outcome # "skipped"}) <= 1
        /\ \A k \in TasksOf(id) :
               tasks[k].outcome = "skipped"
                   => tasks[k].queries = 0 /\ tasks[k].submitted = 0 /\ tasks[k].sent = 0

\* C2 witness: a second call for an id started while the first one was
\* waiting on the network; the first went on to transfer, the second did nothing
C2_Witness ==
    \E j, k \in 1..Len(tasks) :
        /\ j < k /\ tasks[j].id = tasks[k].id
        /\ tasks[k].overlap /\ tasks[k].outcome = "skipped"
        /\ tasks[j].outcome = "done" /\ tasks[j].submitted = 2

\* C7: a fundSingleWallet call of a batch exists only when every call of the
\* earlier batches has settled, so at most fundBatchSize calls made by
\* fundWalletsInParallel are in flight.
C7_BatchesSequential ==
    /\ Cardinality({k \in FundAllTasks : InFlight(tasks[k])}) <= fundBatchSize
    /\ \A j, k \in FundAllTasks :
           (tasks[j].call < tasks[k].call
              \/ (tasks[j].call = tasks[k].call /\ tasks[j].batch < tasks[k].batch))
               => ~InFlight(tasks[j])
    /\ \A k \in FundAllTasks :
           Cardinality(BatchTasks(tasks, tasks[k].call, tasks[k].batch)) <= fundBatchSize

\* C7 witness: the second batch is in flight after a first batch of
\* fundBatchSize calls of which one failed and one went through
C7_Witness ==
    /\ fund.pc = "awaiting" /\ fund.batch = 2
    /\ \E k \in BatchTasks(tasks, fund.call, 2) : InFlight(tasks[k])
    /\ Cardinality(BatchTasks(tasks, fund.call, 1)) = fundBatchSize
    /\ \E j, k \in BatchTasks(tasks, fund.call, 1) :
           tasks[j].outcome = "failed" /\ tasks[k].outcome = "done"

\* the fundSingleWallet calls the current fundWalletsInParallel call made for id
AttemptsFor(id) ==
    Cardinality({k \in FundAllTasks : tasks[k].call = fund.call /\ tasks[k].id = id})

RecordsOf(id) == Cardinality({i \in 1..Len(walletData) : walletData[i].pubkey = id})

\* when fundWalletsInParallel has returned: one settled fundSingleWallet call
\* for every record whose id was not in funded when it was called, none for
\* the others
FundAllAttemptedAll ==
    (fund.pc = "done" /\ ~fund.skipped)
        => /\ \A id \in Pubkeys(walletData) :
                  AttemptsFor(id) = IF id \in fund.atCall THEN 0 ELSE RecordsOf(id)
           /\ \A k \in FundAllTasks : ~InFlight(tasks[k])

\* C8: with treasury sources loaded, a failing network call in one
\* fundSingleWallet never aborts fundWalletsInParallel: once it waits for a
\* batch it eventually returns, it never ends otherwise, and when it has
\* returned every record that was not in funded at the call has had exactly
\* one fundSingleWallet call, the records of later batches included.
C8_FundAllCompletes ==
    /\ (fund.pc = "awaiting") ~> (fund.pc = "done")
    /\ [](fund.pc \in {"idle", "awaiting", "done"})
    /\ []FundAllAttemptedAll

\* C8 witness: fundWalletsInParallel has returned; in its first batch one
\* call was rejected or failed, and a call of the second batch transferred
C8_Witness ==
    /\ fund.pc = "done" /\ ~fund.skipped
    /\ \E j \in BatchTasks(tasks, fund.call, 1) : tasks[j].outcome \in {"failed", "rejected"}
    /\ \E k \in BatchTasks(tasks, fund.call, 2) :
           tasks[k].outcome = "done" /\ tasks[k].submitted > 0

\* a failed or rejected call leaves its id in funded, and every call for that
\* id made after it does nothing on the network
FailedStaysClaimed ==
    \A k \in 1..Len(tasks) :
        tasks[k].outcome \in {"failed", "rejected"}
            => /\ tasks[k].id \in funded
               /\ \A j \in TasksOf(tasks[k].id) :
                      j > k => /\ tasks[j].outcome = "skipped"
                               /\ tasks[j].queries = 0 /\ tasks[j].submitted = 0

\* C9: no step removes an id from funded; once a fundSingleWallet call has
\* failed, its id is in funded and later calls for it (direct or through
\* fundWalletsInParallel) make no balance query and no transfer.
C9_FundedOnlyGrows ==
    /\ [][funded \subseteq funded']_vars
    /\ []FailedStaysClaimed

\* C9 witness: a call failed after submitting a transfer, a later direct
\* call for the same id was skipped, and a second fundWalletsInParallel
\* call has returned without a call for it
C9_Witness ==
    /\ fund.pc = "done" /\ fund.call = 2
    /\ \E k \in 1..Len(tasks) :
           /\ tasks[k].outcome = "failed" /\ tasks[k].submitted > 0
           /\ tasks[k].id \in funded
           /\ \E j \in TasksOf(tasks[k].id) :
                  j > k /\ tasks[j].src = "direct" /\ tasks[j].outcome = "skipped"
           /\ \A j \in TasksOf(tasks[k].id) : tasks[j].call # 2

\* the ids of the persisted records are pairwise distinct
StoreDistinct ==
    /\ ~NormalizeThrows(store)
    /\ \A i, j \in 1..Len(store) :
           i # j => normalizeWalletData(store)[i].pubkey # normalizeWalletData(store)[j].pubkey

\* C10: when the store holds P records with pairwise distinct ids and the
\* target T is larger than P, then after generation the pool holds exactly T
\* records with pairwise distinct ids, and allPubkeys is the set of their
\* ids and has T elements.
C10_ExactlyTargetUnique ==
    (loadPc \in {"writing", "funding", "done"} /\ StoreDistinct
        /\ walletConfig.numWalletsToGenerate > Len(store))
        => /\ Len(walletData) = walletConfig.numWalletsToGenerate
           /\ \A i, j \in 1..Len(walletData) :
                  i # j => walletData[i].pubkey # walletData[j].pubkey
           /\ Cardinality(allPubkeys) = walletConfig.numWalletsToGenerate
           /\ allPubkeys = {walletData[i].pubkey : i \in 1..Len(walletData)}

\* C10 witness: loadOrGenerateWallets has finished on a store of one record
\* and a target of three, after generating two
C10_Witness ==
    /\ loadPc = "done" /\ StoreDistinct
    /\ Len(store) = 1 /\ walletConfig.numWalletsToGenerate = 3
    /\ gen.made = 2 /\ Len(walletData) = 3

\* ------------------------------------------------------------------------
\* Properties of one fundSingleWallet run (checked under SpecFunding)
\* ------------------------------------------------------------------------

\* the shortfall the run computed when the balance query answered
Shortfall(t) == walletConfig.fundAmountLamports - t.balance

\* the run has computed a transfer amount and the transfer is under way
Transferring(t) == t.pc \in {"send", "confirm"}

\* C13: in one fundSingleWallet run, whatever part count and factors are
\* drawn, every transfer amount is at least MIN_SOL_BUFFER_LAMPORTS and at
\* most the shortfall remaining before that transfer, the remaining shortfall
\* is never negative, and the transfers sum to at most the initial shortfall
\* (what was sent plus what remains is the initial shortfall).
C13_PartsWithinShortfall ==
    \A k \in 1..Len(tasks) :
        LET t == tasks[k]
        IN  /\ t.remaining >= 0
            /\ Transferring(t)
                  => /\ t.part >= MIN_SOL_BUFFER_LAMPORTS
                     /\ t.part <= t.remaining
                     /\ t.sent + t.remaining = Shortfall(t)
            /\ t.pc = "delay" => t.sent + t.remaining = Shortfall(t)
            /\ t.balance >= 0 /\ t.balance < Threshold(walletConfig)
                  => t.sent <= Shortfall(t)
            /\ t.balance >= Threshold(walletConfig) => t.sent = 0 /\ t.submitted = 0

\* C13 witness: with a buffer of 10, a third transfer is under way whose
\* amount was raised to the buffer and is less than what remains, after two
\* confirmed transfers
C13_Witness ==
    \E k \in 1..Len(tasks) :
        /\ tasks[k].pc = "send" /\ tasks[k].submitted = 3 /\ tasks[k].sent > 0
        /\ MIN_SOL_BUFFER_LAMPORTS = 10
        /\ tasks[k].part = MIN_SOL_BUFFER_LAMPORTS
        /\ tasks[k].remaining > tasks[k].part

\* ------------------------------------------------------------------------
\* Properties of the rotation (checked under SpecRotation)
\* ------------------------------------------------------------------------

IdAt(i) == walletData[i].pubkey

\* in the state right after a loadActiveBatch call: record i was used and the
\* cooldown the call evaluated for it has not elapsed
OnCooldown(i) ==
    /\ IdAt(i) \in DOMAIN usedAt
    /\ now - usedAt[IdAt(i)] < select.evaluated[i]

SeasoningRequired == walletConfig.enableSeasoning

\* record i may act: its cooldown has elapsed and it is seasoned if required
Eligible(i) == ~OnCooldown(i) /\ (SeasoningRequired => walletData[i].isSeasoned)

\* C11: when no record is eligible (every one is on cooldown, or seasoning
\* is required and every record whose cooldown has elapsed is unseasoned),
\* loadActiveBatch returns the empty sequence and does not throw.
C11_EmptyWhenNoneEligible ==
    (select.fresh /\ \A i \in 1..Len(walletData) : ~Eligible(i))
        => select.kind = "result" /\ select.batch = <<>>

\* C11 witness: seasoning is required; the seasoned record is on cooldown,
\* the other one has no cooldown running and is unseasoned; the call
\* returned the empty sequence
C11_Witness ==
    /\ select.fresh /\ select.kind = "result" /\ select.batch = <<>>
    /\ SeasoningRequired /\ Len(walletData) = 2
    /\ \E i, j \in 1..Len(walletData) :
           /\ walletData[i].isSeasoned /\ OnCooldown(i)
           /\ ~walletData[j].isSeasoned /\ ~OnCooldown(j)

\* C12: every loadActiveBatch call (its cleanupOldCooldowns(now), whichever
\* of the random passes run) removes every cooldown entry with
\* now - timestamp > MAX_COOLDOWN_AGE_MS and leaves every entry with
\* now - timestamp <= MAX_COOLDOWN_AGE_MS in place with its timestamp.
C12_CleanupRemovesExactlyOld ==
    [][select'.fresh
         => \A key \in DOMAIN walletCooldowns :
                IF now - walletCooldowns[key] > MAX_COOLDOWN_AGE_MS
                THEN key \notin DOMAIN walletCooldowns'
                ELSE /\ key \in DOMAIN walletCooldowns'
                     /\ walletCooldowns'[key] = walletCooldowns[key]]_vars

\* C12 witness: right after a call at which one record was last used exactly
\* MAX_COOLDOWN_AGE_MS ago and another one 1 ms earlier: the first entry is
\* still there, the second is gone
C12_Witness ==
    /\ select.fresh
    /\ \E old, young \in DOMAIN usedAt :
           /\ now - usedAt[young] = MAX_COOLDOWN_AGE_MS
           /\ young \in DOMAIN walletCooldowns /\ walletCooldowns[young] = usedAt[young]
           /\ now - usedAt[old] = MAX_COOLDOWN_AGE_MS + 1
           /\ old \notin DOMAIN walletCooldowns

\* the trade count getWalletCooldown read for record i in the call just made
TradeCountAt(i) == GetOrZero(walletTradeCount, IdAt(i))

\* five times base * (1 + (tradeCount mod 5) * 0.2), in exact arithmetic
FiveTimesProduct(i) == select.bases[i] * (5 + (TradeCountAt(i) % 5))

\* the cooldown lies between min and 1.8 * max, and is 1600 for min = max =
\* 1000 and a trade count of 3
CooldownInRange(i) ==
    /\ select.bases[i] >= walletConfig.minWalletCooldownMs
    /\ select.bases[i] <= walletConfig.maxWalletCooldownMs
    /\ select.evaluated[i] >= walletConfig.minWalletCooldownMs
    /\ 5 * select.evaluated[i] <= 9 * walletConfig.maxWalletCooldownMs
    /\ (walletConfig.minWalletCooldownMs = 1000 /\ walletConfig.maxWalletCooldownMs = 1000
          /\ TradeCountAt(i) = 3) => select.evaluated[i] = 1600

\* C14 as stated: the cooldown evaluated for a record is the floor of
\* base * (1 + (tradeCount mod 5) * 0.2) (tradeCount 0 for an id without an
\* entry), base between min and max; it lies between min and 1.8 * max;
\* min = max = 1000 and tradeCount 3 give 1600.
C14_ExactFloor ==
    select.fresh
        => \A i \in 1..Len(walletData) :
               /\ select.evaluated[i] = FiveTimesProduct(i) \div 5
               /\ CooldownInRange(i)

\* C14 amended: the cooldown is the floor of the product as double
\* arithmetic computes it: the floor of the exact product, except that for
\* tradeCount mod 5 = 2 and a base that is a multiple of 5 (the exact product
\* is a whole number) it can be 1 less; the range and the example are as stated.
C14_FloorOfDoubleProduct ==
    select.fresh
        => \A i \in 1..Len(walletData) :
               /\ \/ select.evaluated[i] = FiveTimesProduct(i) \div 5
                  \/ /\ select.evaluated[i] = FiveTimesProduct(i) \div 5 - 1
                     /\ TradeCountAt(i) % 5 = 2
                     /\ select.bases[i] % 5 = 0
               /\ TradeCountAt(i) % 5 # 2
                     => select.evaluated[i] = FiveTimesProduct(i) \div 5
               /\ CooldownInRange(i)

\* C14 witness: a call evaluated 1600 for a record used 3 times with
\* min = max = 1000, and the full base for a record never used
C14_Witness ==
    /\ select.fresh
    /\ walletConfig.minWalletCooldownMs = 1000 /\ walletConfig.maxWalletCooldownMs = 1000
    /\ \E i, j \in 1..Len(walletData) :
           /\ TradeCountAt(i) = 3 /\ select.evaluated[i] = 1600
           /\ IdAt(j) \notin DOMAIN walletTradeCount /\ select.evaluated[j] = 1000

\* no treasury source is configured
NoTreasury == walletConfig.relayerPrivateKeys = <<>>

\* the call just made threw: only Keypair.fromSecretKey throws, for a selected
\* record whose private key is not a key
SelectedBadKey == \E n \in 1..Len(select.selected) :
                      ~ValidKey(walletData[select.selected[n]].privateKey)

\* C15: with no treasury source, loadOrGenerateWallets does not fail, the
\* funding it calls is skipped as a whole (no fundSingleWallet call is
\* started, so no balance is queried and nothing is transferred, and funded
\* stays as it was), and the pool it leaves can be selected from:
\* loadActiveBatch selects a record whenever one is eligible and throws only
\* for a record whose stored key is not a key.
C15_NoTreasurySkipsFunding ==
    NoTreasury
        => /\ loadPc # "failed" /\ loadPc # "funding"
           /\ relayerKeypairs = <<>>
           /\ tasks = <<>>
           /\ funded = {}
           /\ fund.pc \in {"idle", "done"}
           /\ fund.pc = "done" => fund.skipped /\ fund.atCall = funded
           /\ loadPc = "done"
                 => /\ fund.pc = "done"
                    /\ Len(walletData) >= walletConfig.numWalletsToGenerate
           /\ select.fresh
                 => /\ (\E i \in 1..Len(walletData) : Eligible(i)) => select.selected # <<>>
                    /\ select.kind = "error" <=> SelectedBadKey

\* C15 witness: loadOrGenerateWallets generated wallets and returned with
\* the funding skipped, and a loadActiveBatch call then returned a batch
C15_Witness ==
    /\ NoTreasury /\ loadPc = "done" /\ gen.made > 0
    /\ fund.pc = "done" /\ fund.skipped /\ tasks = <<>>
    /\ select.fresh /\ select.kind = "result" /\ select.batch # <<>>

\* the positions in walletData of the records the call just made selected
Selected == {select.selected[n] : n \in 1..Len(select.selected)}

\* C16: every member of the batch a loadActiveBatch call returns is made from
\* a record of walletData; if that record was ever marked used, at least the
\* cooldown the call evaluated for it, and so at least minWalletCooldownMs,
\* has passed since; it is seasoned when enableSeasoning is set.  No record
\* is in the batch twice, no id is (the ids of the store being distinct),
\* and the batch has at most batchSize members, shuffled or not.
C16_BatchMembersEligible ==
    (select.fresh /\ select.kind = "result")
        => /\ Len(select.batch) = Len(select.selected)
           /\ Len(select.batch) <= walletConfig.batchSize
           /\ \A n \in 1..Len(select.batch) :
                  LET i == select.selected[n]
                  IN  /\ i \in 1..Len(walletData)
                      /\ select.batch[n] = ActiveEntry(walletData[i])
                      /\ SeasoningRequired => walletData[i].isSeasoned
                      /\ IdAt(i) \in DOMAIN usedAt
                            => /\ now - usedAt[IdAt(i)] >= select.evaluated[i]
                               /\ now >= usedAt[IdAt(i)] + walletConfig.minWalletCooldownMs
           /\ \A n, m \in 1..Len(select.batch) :
                  n # m => /\ select.selected[n] # select.selected[m]
                           /\ StoreDistinct => select.batch[n].pubkey # select.batch[m].pubkey

\* C16 witness: seasoning is required and the eligible records are shuffled;
\* more records are eligible than batchSize, and the one selected was used
\* before and its cooldown elapsed at this very millisecond
C16_Witness ==
    /\ select.fresh /\ select.kind = "result"
    /\ SeasoningRequired /\ walletConfig.shuffleWallets
    /\ Len(select.batch) = walletConfig.batchSize
    /\ Cardinality({i \in 1..Len(walletData) : Eligible(i)}) > walletConfig.batchSize
    /\ \E i \in Selected :
           /\ IdAt(i) \in DOMAIN usedAt
           /\ now - usedAt[IdAt(i)] = select.evaluated[i]

\* a batch of two: both records of the pool, one of them used before
C16_WitnessPair ==
    /\ select.fresh /\ select.kind = "result" /\ Len(select.batch) = 2
    /\ \E i \in Selected : IdAt(i) \in DOMAIN usedAt

\* C20: right after every loadActiveBatch call that returned, activeWallets
\* is the batch the call returned, also when that batch is empty.
C20_ActiveIsReturnedBatch ==
    (select.fresh /\ select.kind = "result") => activeWallets = select.batch

\* ------------------------------------------------------------------------
\* Properties of the personalities (checked under SpecPersonality)
\* ------------------------------------------------------------------------

\* C19: once an id has a personality tag, no step (no further
\* assignPersonalities call in particular) changes it: getPersonality(id)
\* keeps returning the same tag.
C19_TagsAreStable ==
    [][\A id \in DOMAIN walletPersonalities :
           /\ id \in DOMAIN walletPersonalities'
           /\ getPersonality(walletPersonalities', id)
                  = getPersonality(walletPersonalities, id)]_vars

\* ------------------------------------------------------------------------
\* Properties of one checkCircuitBreakers call (checked under SpecBreaker)
\* ------------------------------------------------------------------------

\* the call in flight moves on from position pc
Leaves(pc) == evalPc = pc /\ evalPc' # pc

\* the call in flight returns the result of the check that ran last, and
\* this step neither queries the sink balance nor counts a stop-loss check
StopsHere ==
    /\ evalPc' = "idle"
    /\ lastReturn' = [kind |-> "result", tripped |-> TRUE, reason |-> evalResult.reason]
    /\ balanceQueries' = balanceQueries
    /\ checkCounter' = checkCounter

\* C17: a checkCircuitBreakers call of the enabled breaker runs the
\* consecutive-failure check first, the failure-rate check only if that did
\* not trip, and the stop-loss check (the only one to query the sink
\* balance) only if neither tripped; it returns the result of the first
\* check that tripped.  The reason of a tripped check names the check and
\* holds its metric: the failure count, the failure rate of the window in
\* percent, or the loss in percent.
C17_FirstTripReturns ==
    [][/\ Leaves("idle")
            => /\ evalPc' = "afterCheck1"
               /\ balanceQueries' = balanceQueries
               /\ evalResult'.tripped <=> consecutiveFailures >= config.maxConsecutiveFailures
               /\ evalResult'.tripped
                     => evalResult'.reason = "Circuit Breaker: "
                            \o ToString(consecutiveFailures) \o " consecutive failures"
       /\ Leaves("afterCheck1")
            => IF evalResult.tripped THEN StopsHere
               ELSE /\ evalPc' = "afterCheck2"
                    /\ balanceQueries' = balanceQueries
                    /\ evalResult'.tripped
                          => evalResult'.reason = "Circuit Breaker: "
                                 \o ToFixed1Percent(Failures(recentTrades), Len(recentTrades))
                                 \o "% failure rate (last "
                                 \o ToString(config.failureRateWindow) \o " trades)"
       /\ Leaves("afterCheck2")
            => IF evalResult.tripped THEN StopsHere
               ELSE /\ evalPc' \in {"balance", "afterCheck3"}
                    /\ evalPc' = "afterCheck3" => ~evalResult'.tripped
                    /\ balanceQueries' = balanceQueries + (IF evalPc' = "balance" THEN 1 ELSE 0)
       /\ Leaves("balance")
            => /\ evalPc' \in {"afterCheck3", "idle"}
               /\ balanceQueries' = balanceQueries
               /\ evalPc' = "idle" => lastReturn'.kind = "error"
               /\ (evalPc' = "afterCheck3" /\ evalResult'.tripped)
                     => \E current \in SinkBalances :
                            evalResult'.reason = "Circuit Breaker: "
                                \o ToFixed1Percent(initialSinkBalance - current,
                                                   initialSinkBalance)
                                \o "% loss from initial balance"
       /\ Leaves("afterCheck3")
            => /\ evalPc' = "idle"
               /\ balanceQueries' = balanceQueries
               /\ lastReturn' = [kind |-> "result", tripped |-> evalResult.tripped,
                                  reason |-> evalResult.reason]
       /\ balanceQueries' # balanceQueries => Leaves("afterCheck2")]_vars

\* C17 witness: a call with a sink given and an initial balance recorded, at
\* which the stop-loss check was due, has just returned the reason of the
\* consecutive-failure check without a balance query, while the failure-rate
\* check would trip too
C17_Witness ==
    /\ evalPc = "idle" /\ lastReturn.kind = "result" /\ lastReturn.tripped
    /\ lastReturn.reason = "Circuit Breaker: " \o ToString(consecutiveFailures)
                               \o " consecutive failures"
    /\ checkFailureRate(recentTrades, config).tripped
    /\ evalSink /\ initialSinkBalance > 0
    /\ StopLossDue(evalSink, initialSinkBalance, checkCounter + 1)
    /\ balanceQueries = 0 /\ ~needEval

\* the call in flight was made with a sink and an initial balance is recorded
SinkKnown == evalSink /\ initialSinkBalance > 0

\* this step queries the sink balance
Queries == balanceQueries' = balanceQueries + 1

\* the stop-loss check has just tripped on balance `current`: the loss is
\* strictly above the threshold and the reason gives it in percent
TrippedOn(current) ==
    /\ (initialSinkBalance - current) * 1000 > config.emergencyStopLoss * initialSinkBalance
    /\ evalResult'.reason = "Circuit Breaker: "
           \o ToFixed1Percent(initialSinkBalance - current, initialSinkBalance)
           \o "% loss from initial balance"

\* what C18 says of every call alike: the balance is queried only by the
\* stop-loss check of a call with a sink and a recorded initial balance, and
\* the stop-loss check trips only after such a query, on a loss strictly
\* above emergencyStopLoss
StopLossOnlyOnQuery ==
    /\ balanceQueries' # balanceQueries
          => Queries /\ Leaves("afterCheck2") /\ ~evalResult.tripped /\ SinkKnown
    /\ Leaves("afterCheck2") /\ ~evalResult.tripped /\ ~Queries => ~evalResult'.tripped
    /\ Leaves("balance") /\ evalResult'.tripped
          => \E current \in SinkBalances : TrippedOn(current)

\* C18 as stated: of the checkCircuitBreakers calls of the enabled breaker,
\* those whose number is a multiple of SINK_BALANCE_CHECK_INTERVAL (and that
\* have a sink and an initial balance) query the sink balance, and no other
\* call does; the stop-loss check trips only on such a call, on a loss
\* strictly above the threshold.
C18_QueryOnEveryNthCall ==
    [][/\ StopLossOnlyOnQuery
       /\ Queries => evalCalls % SINK_BALANCE_CHECK_INTERVAL = 0
       /\ (evalPc \in {"afterCheck1", "afterCheck2"} /\ evalPc' \in {"idle", "afterCheck3"}
             /\ SinkKnown)
             => evalCalls % SINK_BALANCE_CHECK_INTERVAL # 0]_vars

\* C18 amended: checkCounter counts the calls in which neither earlier check
\* tripped (the stop-loss check ran); the balance is queried in exactly those
\* of them whose count is a multiple of SINK_BALANCE_CHECK_INTERVAL and that
\* have a sink and a recorded initial balance.  A call in which an earlier
\* check trips neither queries nor counts.
C18_QueryOnEveryNthStopLossCheck ==
    [][/\ StopLossOnlyOnQuery
       /\ checkCounter' # checkCounter
             => /\ checkCounter' = checkCounter + 1
                /\ Leaves("afterCheck2") /\ ~evalResult.tripped
       /\ Leaves("afterCheck2") /\ ~evalResult.tripped
             => /\ checkCounter' = checkCounter + 1
                /\ Queries <=> (SinkKnown /\ checkCounter' % SINK_BALANCE_CHECK_INTERVAL = 0)
       /\ checkCounter <= evalCalls]_vars

\* C18 witness: the stop-loss check has just tripped on the one query made
\* so far, in the third call: the first call ran the stop-loss check
\* without a query, in the second an earlier check tripped
C18_Witness ==
    /\ evalPc = "afterCheck3" /\ evalResult.tripped /\ fresh
    /\ balanceQueries = 1 /\ checkCounter = SINK_BALANCE_CHECK_INTERVAL
    /\ evalCalls = SINK_BALANCE_CHECK_INTERVAL + 1

\* ------------------------------------------------------------------------
\* What one fundSingleWallet run achieves (checked under SpecFunding, where
\* every network call succeeds)
\* ------------------------------------------------------------------------

\* 80% of the funding target, rounded down
EightyPercent == (walletConfig.fundAmountLamports * 8) \div 10

\* the run has returned after its balance query answered
Finished(t) == t.pc = "done" /\ t.balance >= 0

\* C22 as stated: a run whose balance query answered at least 80% of the
\* target submits no transfer; a run whose query answered less ends with
\* the balance (what the query answered plus what was transferred) at 80%
\* of the target or more, whatever part count and factors are drawn.
C22_ReachesEightyPercent ==
    \A k \in 1..Len(tasks) :
        LET t == tasks[k]
        IN  Finished(t)
               => IF t.balance >= EightyPercent THEN t.submitted = 0
                  ELSE t.balance + t.sent >= EightyPercent

\* C22 amended: a run whose balance query answered at least 80% of the
\* target (rounded down) submits no transfer.  A run whose query answered
\* less transfers nothing when the shortfall is at most
\* MIN_SOL_BUFFER_LAMPORTS; otherwise it makes 1 to 4 transfers that sum to
\* at most the shortfall and leave at most MIN_SOL_BUFFER_LAMPORTS or at
\* most 40% of the shortfall (rounded up) of it, whichever is larger: the
\* balance ends at most at the target, and need not reach 80% of it.
C22_LeavesAtMostFortyPercent ==
    \A k \in 1..Len(tasks) :
        LET t == tasks[k]
        IN  Finished(t)
               => IF t.balance >= EightyPercent
                  THEN t.submitted = 0 /\ t.sent = 0 /\ t.outcome = "funded"
                  ELSE IF Shortfall(t) <= MIN_SOL_BUFFER_LAMPORTS
                  THEN t.submitted = 0 /\ t.sent = 0 /\ t.outcome = "done"
                  ELSE /\ t.outcome = "done"
                       /\ t.submitted \in 1..4
                       /\ Shortfall(t) - t.sent
                              <= Max(MIN_SOL_BUFFER_LAMPORTS,
                                     Shortfall(t) - (Shortfall(t) * 6) \div 10)
                       /\ t.sent <= Shortfall(t)
                       /\ t.balance + t.sent <= walletConfig.fundAmountLamports

\* C22 witness: the balance query answered 0, one transfer of 60% of the
\* target was made and the run returned: the balance is below 80%
C22_Witness ==
    \E k \in 1..Len(tasks) :
        /\ Finished(tasks[k]) /\ tasks[k].outcome = "done"
        /\ tasks[k].balance = 0 /\ tasks[k].submitted = 1
        /\ 10 * tasks[k].sent = 6 * walletConfig.fundAmountLamports
        /\ tasks[k].sent < EightyPercent

\* ------------------------------------------------------------------------
\* The capping of trade counts (checked under SpecCapping)
\* ------------------------------------------------------------------------

\* C21: in every loadActiveBatch call, for every record, the cooldown the
\* call evaluated (from the trade counts its cleanup left) is the cooldown
\* the same base gives with the trade counts as they were before the call,
\* and the record passes the cooldown test with the one if and only if it
\* passes it with the other (same now, same timestamp).
C21_CappingKeepsEligibility ==
    [][select'.fresh
         => \A i \in 1..Len(walletData) :
                LET lastTrade == GetOrZero(walletCooldowns', IdAt(i))
                    uncapped == getWalletCooldown(walletTradeCount, IdAt(i),
                                                  select'.bases[i])
                IN  /\ select'.evaluated[i] = uncapped
                    /\ CooldownPassed(now, lastTrade, select'.evaluated[i])
                          <=> CooldownPassed(now, lastTrade, uncapped)]_vars

=============================================================================
